---- MODULE Spec2Model ----
(***************************************************************************)
(* Model of the EMSE-RMs article classification pipeline:                  *)
(*   criteria.py         Criterion, CriteriaStore                          *)
(*   article.py          Article (document-store record)                   *)
(*   classifyArticle.py  the PDF processing loop                           *)
(*                                                                         *)
(* Strings whose characters the code inspects (method names, paths, MoSCoW *)
(* priorities) are sequences of one-character strings; strings the code    *)
(* only compares or copies (descriptions, levels, attribute texts, titles, *)
(* DOIs) are atoms.                                                        *)
(***************************************************************************)
EXTENDS Integers, Sequences, FiniteSets, TLC

VARIABLES
    criteria,   \* CriteriaStore.criteria: method name -> sequence of Criterion objects
    fs,         \* the file system: path -> sequence of CSV rows (header first)
    ret,        \* outcome of the last CriteriaStore operation
    inserted,   \* history: the <<method, description, level, moscow, attribute>> insertions so far
    nops,       \* number of CriteriaStore operations performed
    pc,         \* position of the PDF processing loop
    idx,        \* index of the PDF being processed
    title,      \* title extracted for the current PDF
    doi,        \* result of the DOI lookup for the current PDF
    lookups,    \* number of get_doi_by_title calls made for the current PDF
    resulting_method, \* research method of the current PDF
    rmQuality,  \* quality report of the current PDF
    db,         \* the Articles collection: document id -> record
    log         \* history: per processed PDF, what the loop did with it

storeVars == <<criteria, fs, ret, inserted, nops>>
loopVars  == <<pc, idx, title, doi, lookups, resulting_method, rmQuality, db, log>>
vars == <<criteria, fs, ret, inserted, nops,
          pc, idx, title, doi, lookups, resulting_method, rmQuality, db, log>>

----------------------------------------------------------------------------
(* Bounds *)

MaxOps  == 2    \* CriteriaStore operations per behaviour of Spec
MaxRows == 3    \* data rows of the source file drawn in InitLoad
MaxLoadOps == 2 \* CriteriaStore operations per behaviour of SpecLoad
NumPdfs == 2    \* PDF files in ./articles/
MaxSaves == 3   \* save_to_firestore calls per behaviour of SpecSave

----------------------------------------------------------------------------
(* Strings *)

UpperCase == <<"A","B","C","D","E","F","G","H","I","J","K","L","M",
               "N","O","P","Q","R","S","T","U","V","W","X","Y","Z">>
LowerCase == <<"a","b","c","d","e","f","g","h","i","j","k","l","m",
               "n","o","p","q","r","s","t","u","v","w","x","y","z">>

\* str.lower() of one character
LowerChar(c) ==
    IF \E i \in 1..26 : UpperCase[i] = c
    THEN LowerCase[CHOOSE i \in 1..26 : UpperCase[i] = c]
    ELSE c

\* str.lower()
Lower(s) == [i \in 1..Len(s) |-> LowerChar(s[i])]

\* str.rfind(ch), 1-based; 0 when ch does not occur
RFind(s, ch) ==
    IF \E i \in 1..Len(s) : s[i] = ch
    THEN CHOOSE i \in 1..Len(s) : s[i] = ch /\ \A j \in (i+1)..Len(s) : s[j] # ch
    ELSE 0

\* os.path.basename
Basename(p) == SubSeq(p, RFind(p, "/") + 1, Len(p))

\* os.path.splitext(p)[0]: the extension starts at the last dot, unless that
\* dot is among the leading dots of the last path component
SplitextRoot(p) ==
    LET sepIndex == RFind(p, "/")
        dotIndex == RFind(p, ".")
    IN IF dotIndex > sepIndex
          /\ \E i \in (sepIndex+1)..(dotIndex-1) : p[i] # "."
       THEN SubSeq(p, 1, dotIndex - 1)
       ELSE p

\* os.path.join(a, b)
Join(a, b) ==
    IF Len(b) > 0 /\ b[1] = "/" THEN b
    ELSE IF Len(a) = 0 \/ a[Len(a)] = "/" THEN a \o b
    ELSE a \o <<"/">> \o b

CsvDir == <<"c","s","v","/">>
CsvExt == <<".","c","s","v">>

\* the path is_criteria_available resolves for a method name
CsvFile(research_method) == Join(CsvDir, research_method \o CsvExt)

\* the research method load_from_csv derives from a path
MethodOfPath(file_path) == SplitextRoot(Basename(file_path))

----------------------------------------------------------------------------
(* Input domains *)

MethodA  == <<"a">>
MethodB  == <<"b">>
MethodAB == <<"a","/","b">>
MethodNames == {MethodA, MethodB, MethodAB, <<>>}

Descriptions == {"d1", "d2"}
Levels == {"L1", "L2"}
AttributeTexts == {"x", "y"}

MustHaveMixed == <<"M","u","s","t"," ","H","a","v","e">>
MustHaveLower == <<"m","u","s","t"," ","h","a","v","e">>
MustHaveUpper == <<"M","U","S","T"," ","H","A","V","E">>
CouldHave     == <<"C","o","u","l","d"," ","H","a","v","e">>
MustHaveSpace == <<"M","u","s","t"," ","H","a","v","e"," ">>
Moscows == {MustHaveMixed, MustHaveLower, MustHaveUpper, CouldHave, MustHaveSpace}

Header == <<"description", "level", <<"m","o","s","c","o","w">>, "attribute">>

\* all enumerations of a finite set as a duplicate-free sequence
\* (the orders in which iterating a Python set can yield its elements)
Enumerations(S) ==
    {e \in [1..Cardinality(S) -> S] : \A x \in S : \E i \in 1..Cardinality(S) : e[i] = x}

Range(s) == {s[i] : i \in 1..Len(s)}

Count(s, x) == Cardinality({i \in 1..Len(s) : s[i] = x})

----------------------------------------------------------------------------
(* criteria.py: Criterion *)

\* Criterion.__init__
Criterion(description, level) ==
    [description |-> description, level |-> level, attributes |-> {}]

\* variant: the attribute set is replaced by the new pair
add_attribute_replacing(c, moscow, attribute) ==
    [c EXCEPT !.attributes = {<<moscow, attribute>>}]

\* Criterion.add_attribute
add_attribute(c, moscow, attribute) ==
    [c EXCEPT !.attributes = @ \cup {<<moscow, attribute>>}]

\* Criterion.to_dict; attrOrder is the order in which list(self.attributes)
\* happens to yield the set
to_dict(c, attrOrder) ==
    [description |-> c.description, level |-> c.level, attributes |-> attrOrder]

----------------------------------------------------------------------------
(* criteria.py: CriteriaStore.  A method's set of Criterion objects is a    *)
(* sequence: the index is the object's identity (a Python set of objects    *)
(* without __eq__/__hash__ holds distinct objects, equal or not), and the   *)
(* order in which the set is iterated is chosen where the code iterates.    *)

\* CriteriaStore.__init__: an empty defaultdict(set)
EmptyStore == [m \in {} |-> <<>>]

\* defaultdict.__getitem__: self.criteria[m] creates the entry when missing
DefaultDictIndex(store, m) ==
    IF m \in DOMAIN store THEN store ELSE store @@ (m :> <<>>)

\* dict.get(m, []): no entry is created
DictGet(store, m) ==
    IF m \in DOMAIN store THEN store[m] ELSE <<>>

\* the objects of a set whose description equals the one looked up
Matching(criteria_set, description) ==
    {i \in 1..Len(criteria_set) : criteria_set[i].description = description}

\* variant: a repeated description overwrites the level
add_criterion_lastLevel(store, research_method, description, level, moscow, attribute) ==
    LET s1 == DefaultDictIndex(store, research_method)
        existing == Matching(s1[research_method], description)
    IN IF existing # {}
       THEN LET i == CHOOSE i \in existing : TRUE
            IN [s1 EXCEPT ![research_method][i] =
                   [description |-> @.description, level |-> level,
                    attributes |-> @.attributes \cup {<<moscow, attribute>>}]]
       ELSE [s1 EXCEPT ![research_method] =
                Append(@, [description |-> description, level |-> level,
                           attributes |-> {<<moscow, attribute>>}])]

\* CriteriaStore.add_criterion.  next(...) takes the first match in iteration
\* order; the choice is immaterial while at most one object matches.
add_criterion(store, research_method, description, level, moscow, attribute) ==
    LET s1 == DefaultDictIndex(store, research_method)
        existing == Matching(s1[research_method], description)
    IN IF existing # {}
       THEN LET i == CHOOSE i \in existing : TRUE
            IN [s1 EXCEPT ![research_method][i] = add_attribute(@, moscow, attribute)]
       ELSE [s1 EXCEPT ![research_method] =
                Append(@, add_attribute(Criterion(description, level), moscow, attribute))]

\* variant: only rows of fewer than 4 fields are skipped
LoadRow_atLeast4(store, research_method, row) ==
    IF Len(row) < 4
    THEN store
    ELSE add_criterion(store, research_method, row[1], row[2], row[3], row[4])

\* one iteration of the row loop of load_from_csv
LoadRow(store, research_method, row) ==
    IF Len(row) # 4
    THEN store
    ELSE add_criterion(store, research_method, row[1], row[2], row[3], row[4])

\* the row loop of load_from_csv
RECURSIVE LoadRows(_, _, _)
LoadRows(store, research_method, rows) ==
    IF rows = <<>>
    THEN store
    ELSE LoadRows(LoadRow(store, research_method, Head(rows)), research_method, Tail(rows))

\* variant: a load replaces the method's entry instead of merging into it
load_from_csv_replacing(store, files, file_path) ==
    LET research_method == MethodOfPath(file_path)
        cleared == [m \in DOMAIN store \ {research_method} |-> store[m]]
    IN IF file_path \notin DOMAIN files
       THEN [criteria |-> store, raised |-> "FileNotFoundError"]
       ELSE IF files[file_path] = <<>>
       THEN [criteria |-> store, raised |-> "StopIteration"]
       ELSE [criteria |-> LoadRows(cleared, research_method, Tail(files[file_path])),
             raised |-> "none"]

\* CriteriaStore.load_from_csv on the file system files: open() raises
\* FileNotFoundError for a missing path, next(reader) raises StopIteration
\* for a file without any row, and otherwise discards the first row.
load_from_csv(store, files, file_path) ==
    LET research_method == MethodOfPath(file_path)
    IN IF file_path \notin DOMAIN files
       THEN [criteria |-> store, raised |-> "FileNotFoundError"]
       ELSE IF files[file_path] = <<>>
       THEN [criteria |-> store, raised |-> "StopIteration"]
       ELSE [criteria |-> LoadRows(store, research_method, Tail(files[file_path])),
             raised |-> "none"]

\* the ways iterating a method's set and each object's attribute set can go
Iterations(criteria_set) ==
    LET n == Len(criteria_set)
        AllOrders == UNION {Enumerations(criteria_set[i].attributes) : i \in 1..n}
    IN {it \in [order : Enumerations(1..n), attrs : [1..n -> AllOrders]] :
          \A i \in 1..n : it.attrs[i] \in Enumerations(criteria_set[i].attributes)}

\* variant: the set is reached by self.criteria[research_method]
get_criteria_for_method_indexing(store, research_method, it) ==
    LET criteria_set == DictGet(store, research_method)
    IN [store |-> DefaultDictIndex(store, research_method),
        list |-> [k \in 1..Len(criteria_set) |->
                     to_dict(criteria_set[it.order[k]], it.attrs[it.order[k]])]]

\* CriteriaStore.get_criteria_for_method, iterating as it says
get_criteria_for_method(store, research_method, it) ==
    LET criteria_set == DictGet(store, research_method)
    IN [store |-> store,
        list |-> [k \in 1..Len(criteria_set) |->
                     to_dict(criteria_set[it.order[k]], it.attrs[it.order[k]])]]

\* os.path.exists
PathExists(files, path) == path \in DOMAIN files

\* CriteriaStore.is_criteria_available; it is the iteration of the method's
\* set made by get_criteria_for_method
is_criteria_available(store, files, research_method, it) ==
    LET csv_file == CsvFile(research_method)
    IN IF PathExists(files, csv_file)
       THEN LET ld == load_from_csv(store, files, csv_file)
            IN IF ld.raised # "none"
               THEN [criteria |-> ld.criteria, kind |-> "raise", val |-> <<>>,
                     raised |-> ld.raised]
               ELSE LET g == get_criteria_for_method(ld.criteria, research_method, it)
                    IN [criteria |-> g.store, kind |-> "list", val |-> g.list,
                        raised |-> "none"]
       ELSE [criteria |-> store, kind |-> "None", val |-> <<>>, raised |-> "none"]

\* the literal "must have" of the two list comprehensions
MustHaveLiteral == <<"m","u","s","t"," ","h","a","v","e">>

Texts(pairs) == [i \in 1..Len(pairs) |-> pairs[i][2]]

\* "\n".join(f"- {c}" for c in items), as lines
Bullets(items) == [i \in 1..Len(items) |-> <<"- ", items[i]>>]

BlankLine == <<>>
CheckLine == <<"Please check if the article meets the following criterion:">>
MustLine == <<"It must at least meet the following Must Have criteria:">>
PlaceholderLine == <<"- ", "No explicitly defined 'Must Have' criteria.">>
SubstituteLine ==
    <<"If one of these is missing, it can be replaced by at least two of the following:">>
AnswerLine == <<"Please return only the following: Yes or No, depending on the outcome.">>

\* variant: the priority is compared without lower()
MustHaveOf_caseSensitive(attrOrder) ==
    Texts(SelectSeq(attrOrder, LAMBDA p : p[1] = MustHaveLiteral))

\* the must_have list comprehension over the attributes in iteration order
MustHaveOf(attrOrder) ==
    Texts(SelectSeq(attrOrder, LAMBDA p : Lower(p[1]) = MustHaveLiteral))

\* the other_criteria list comprehension
OtherCriteriaOf(attrOrder) ==
    Texts(SelectSeq(attrOrder, LAMBDA p : Lower(p[1]) # MustHaveLiteral))

\* the prompt string, as the sequence of its lines (prompt.split("\n"))
RenderPrompt(criterion_description, must_have, other_criteria) ==
    <<CheckLine, <<criterion_description>>, BlankLine, MustLine>>
    \o (IF must_have # <<>> THEN Bullets(must_have) ELSE <<PlaceholderLine>>)
    \o (IF other_criteria # <<>>
        THEN <<BlankLine, SubstituteLine>> \o Bullets(other_criteria)
        ELSE <<BlankLine>>)
    \o <<BlankLine, AnswerLine>>

\* variant: the generator of the lookup lacks its description filter
generate_prompt_for_criterion_unfiltered(store, research_method, criterion_description, attrOrder) ==
    LET criteria_set == DictGet(store, research_method)
    IN IF criteria_set = <<>>
       THEN [store |-> store, kind |-> "diagnostic",
             val |-> [description |-> criterion_description, method |-> research_method]]
       ELSE [store |-> store, kind |-> "prompt",
             val |-> RenderPrompt(criterion_description,
                                  MustHaveOf(attrOrder), OtherCriteriaOf(attrOrder))]

\* CriteriaStore.generate_prompt_for_criterion; attrOrder is the order in
\* which the selected criterion's attribute set is iterated
generate_prompt_for_criterion(store, research_method, criterion_description, attrOrder) ==
    LET criteria_set == DictGet(store, research_method)
        found == Matching(criteria_set, criterion_description)
    IN IF found = {}
       THEN [store |-> store, kind |-> "diagnostic",
             val |-> [description |-> criterion_description, method |-> research_method]]
       ELSE [store |-> store, kind |-> "prompt",
             val |-> RenderPrompt(criterion_description,
                                  MustHaveOf(attrOrder), OtherCriteriaOf(attrOrder))]

\* the orders in which generate_prompt_for_criterion can meet the attributes
AttrOrders(store, research_method, criterion_description) ==
    LET criteria_set == DictGet(store, research_method)
        found == Matching(criteria_set, criterion_description)
    IN IF found = {}
       THEN {<<>>}
       ELSE Enumerations(criteria_set[CHOOSE i \in found : TRUE].attributes)

----------------------------------------------------------------------------
(* Calls of the CriteriaStore operations *)

NoCall == [op |-> "none", method |-> <<>>, description |-> "", path |-> <<>>,
           kind |-> "None", val |-> <<>>, raised |-> "none"]

\* the insertions load_from_csv makes from the data rows of a file
Insertions(research_method, rows) ==
    LET valid == SelectSeq(rows, LAMBDA r : Len(r) = 4)
    IN [i \in 1..Len(valid) |-> <<research_method>> \o valid[i]]

\* the insertions a successful load of path makes
InsertionsOfPath(files, path) ==
    IF path \in DOMAIN files /\ files[path] # <<>>
    THEN Insertions(MethodOfPath(path), Tail(files[path]))
    ELSE <<>>

Call_add_criterion(m, d, l, mo, a) ==
    /\ criteria' = add_criterion(criteria, m, d, l, mo, a)
    /\ inserted' = Append(inserted, <<m, d, l, mo, a>>)
    /\ ret' = [NoCall EXCEPT !.op = "add_criterion", !.method = m, !.description = d]
    /\ nops' = nops + 1
    /\ UNCHANGED <<fs, loopVars>>

Call_load_from_csv(path) ==
    LET ld == load_from_csv(criteria, fs, path)
    IN /\ criteria' = ld.criteria
       /\ inserted' = inserted \o InsertionsOfPath(fs, path)
       /\ ret' = [NoCall EXCEPT !.op = "load_from_csv", !.path = path,
                                !.kind = IF ld.raised = "none" THEN "None" ELSE "raise",
                                !.raised = ld.raised]
       /\ nops' = nops + 1
       /\ UNCHANGED <<fs, loopVars>>

Call_get_criteria_for_method(m) ==
    \E it \in Iterations(DictGet(criteria, m)) :
        LET g == get_criteria_for_method(criteria, m, it)
        IN /\ criteria' = g.store
           /\ ret' = [NoCall EXCEPT !.op = "get_criteria_for_method", !.method = m,
                                    !.kind = "list", !.val = g.list]
           /\ nops' = nops + 1
           /\ UNCHANGED <<fs, inserted, loopVars>>

Call_is_criteria_available(m) ==
    \E it \in Iterations(DictGet(load_from_csv(criteria, fs, CsvFile(m)).criteria, m)) :
        LET r == is_criteria_available(criteria, fs, m, it)
        IN /\ criteria' = r.criteria
           /\ inserted' = inserted \o InsertionsOfPath(fs, CsvFile(m))
           /\ ret' = [NoCall EXCEPT !.op = "is_criteria_available", !.method = m,
                                    !.path = CsvFile(m),
                                    !.kind = r.kind, !.val = r.val, !.raised = r.raised]
           /\ nops' = nops + 1
           /\ UNCHANGED <<fs, loopVars>>

Call_generate_prompt_for_criterion(m, d) ==
    \E attrOrder \in AttrOrders(criteria, m, d) :
        LET r == generate_prompt_for_criterion(criteria, m, d, attrOrder)
        IN /\ criteria' = r.store
           /\ ret' = [NoCall EXCEPT !.op = "generate_prompt_for_criterion",
                                    !.method = m, !.description = d,
                                    !.kind = r.kind, !.val = r.val]
           /\ nops' = nops + 1
           /\ UNCHANGED <<fs, inserted, loopVars>>

----------------------------------------------------------------------------
(* File systems *)

FileOne == <<Header,
             <<"d1", "L1", MustHaveMixed, "x">>,
             <<"d1", "L2", CouldHave, "y">>,
             <<"d1", "L1", MustHaveMixed>>,
             <<"d2", "L2", MustHaveUpper, "x">>,
             <<"d1", "L2", MustHaveMixed, "x">> >>

FileTwo == <<Header,
             <<"d2", "L1", MustHaveSpace, "y">>,
             <<"d2", "L2", CouldHave, "y", "z">>,
             <<"d2", "L2", MustHaveLower, "y">>,
             <<"d2", "L1", MustHaveUpper, "x">>,
             <<"d2", "L1", MustHaveMixed, "x">> >>

NoFiles == [p \in {} |-> <<>>]

Paths == {CsvFile(m) : m \in MethodNames}

FileSystems ==
    { NoFiles,
      (CsvFile(MethodA) :> FileOne) @@ (CsvFile(MethodAB) :> FileTwo),
      (CsvFile(MethodB) :> <<>>) @@ (CsvFile(<<>>) :> FileTwo) }

----------------------------------------------------------------------------
(* The PDF processing loop is not running in the store specifications *)

LoopIdle ==
    /\ pc = "idle"
    /\ idx = 0
    /\ title = ""
    /\ doi = "None"
    /\ lookups = 0
    /\ resulting_method = <<>>
    /\ rmQuality = <<>>
    /\ db = [k \in {} |-> <<>>]
    /\ log = <<>>

----------------------------------------------------------------------------
(* Spec: a caller using one CriteriaStore *)

AddMethods == {MethodA, MethodB}
AddMoscows == {MustHaveMixed, MustHaveUpper, CouldHave}

Init ==
    /\ criteria = EmptyStore
    /\ fs \in FileSystems
    /\ ret = NoCall
    /\ inserted = <<>>
    /\ nops = 0
    /\ LoopIdle

Next ==
    \/ \E m \in AddMethods, d \in Descriptions, l \in Levels,
          mo \in AddMoscows, a \in AttributeTexts :
             nops < MaxOps /\ Call_add_criterion(m, d, l, mo, a)
    \/ \E path \in Paths :
             nops < MaxOps /\ Call_load_from_csv(path)
    \/ \E m \in MethodNames :
             nops < MaxOps /\ Call_get_criteria_for_method(m)
    \/ \E m \in MethodNames :
             nops < MaxOps /\ Call_is_criteria_available(m)
    \/ \E m \in MethodNames, d \in Descriptions :
             nops < MaxOps /\ Call_generate_prompt_for_criterion(m, d)

Spec == Init /\ [][Next]_vars

----------------------------------------------------------------------------
(* SpecLoad: one source file of arbitrary content, loaded and re-loaded *)

SeqsUpTo(S, n) == UNION {[1..k -> S] : k \in 0..n}

\* the rows a drawn file is made of: 4-field rows that share a description
\* and differ in level and attribute, one of another description, a 3-field
\* and a 5-field row
DataRows ==
    {<<"d1", "L1", MustHaveMixed, "x">>,
     <<"d1", "L2", MustHaveMixed, "y">>,
     <<"d2", "L1", CouldHave, "x">>,
     <<"d1", "L1", MustHaveMixed>>,
     <<"d1", "L1", MustHaveMixed, "x", "extra">>}

\* the method names and paths SpecLoad calls with
LoadMethods == {MethodB, MethodAB, <<>>}
LoadPaths == {CsvFile(m) : m \in LoadMethods}

\* a file without any row, and the files with a header and up to MaxRows rows
DrawnFiles == {<<>>} \cup {<<Header>> \o rows : rows \in SeqsUpTo(DataRows, MaxRows)}

InitLoad ==
    /\ criteria = EmptyStore
    /\ \E path \in LoadPaths, file \in DrawnFiles : fs = (path :> file)
    /\ ret = NoCall
    /\ inserted = <<>>
    /\ nops = 0
    /\ LoopIdle

NextLoad ==
    \/ nops < MaxLoadOps /\ Call_add_criterion(MethodB, "d1", "L2", CouldHave, "y")
    \/ \E path \in LoadPaths :
             nops < MaxLoadOps /\ Call_load_from_csv(path)
    \/ \E m \in LoadMethods :
             nops < MaxLoadOps /\ Call_is_criteria_available(m)

SpecLoad == InitLoad /\ [][NextLoad]_vars

----------------------------------------------------------------------------
(* article.py: the Articles collection, document id -> record *)

EmptyCollection == [k \in {} |-> <<>>]

\* Article.__init__ and Article.to_dict
Article(name, research_method, article_doi, quality, filenames) ==
    [name |-> name, research_method |-> research_method, doi |-> article_doi,
     rmQuality |-> quality, filenames |-> filenames]

\* the documents a where("doi", "==", doi) query streams
DocsWithDoi(collection, article_doi) ==
    {k \in DOMAIN collection : collection[k].doi = article_doi}

\* Article.does_doi_exist
does_doi_exist(collection, article_doi) == DocsWithDoi(collection, article_doi) # {}

\* Article.save_to_firestore; first is the document the query streams first
save_to_firestore(collection, article, first) ==
    IF DocsWithDoi(collection, article.doi) # {}
    THEN [collection EXCEPT ![first] = article]
    ELSE (article.name :> article) @@ collection

----------------------------------------------------------------------------
(* classifyArticle.py: the PDF processing loop *)

Digits == <<"1","2","3","4","5","6","7","8","9">>
PdfExt == <<".","p","d","f">>

\* os.listdir(directory): the PDFs and a file that is none
Listing == [i \in 1..NumPdfs |-> <<Digits[i]>> \o PdfExt] \o << <<"n",".","t","x","t">> >>

\* str.endswith
EndsWith(s, suffix) ==
    /\ Len(s) >= Len(suffix)
    /\ SubSeq(s, Len(s) - Len(suffix) + 1, Len(s)) = suffix

Titles == {"T1", "T2"}
Dois == {"10.1/a", "10.1/b"}
Answers == {"Yes", "No", "Unknown"}

\* truth value of a DOI lookup result; "None" stands for None
Truthy(d) == d # "None" /\ d # ""

LogEntry(filename) ==
    [filename |-> filename, title |-> "", doi |-> "None", lookups |-> 0,
     saved |-> FALSE, done |-> FALSE]

\* for filename in os.listdir(directory): a non-PDF is skipped, for a PDF a
\* thread is opened (lines 110-120); the loop ends after the last file
ForNext ==
    /\ pc = "for"
    /\ IF idx = Len(Listing)
       THEN /\ pc' = "end"
            /\ UNCHANGED <<idx, lookups, log>>
       ELSE /\ idx' = idx + 1
            /\ IF EndsWith(Lower(Listing[idx + 1]), PdfExt)
               THEN /\ pc' = "step3"
                    /\ lookups' = 0
                    /\ log' = Append(log, LogEntry(Listing[idx + 1]))
               ELSE /\ pc' = "for"
                    /\ UNCHANGED <<lookups, log>>
    /\ UNCHANGED <<title, doi, resulting_method, rmQuality, db, storeVars>>

\* Steps 2-3: the assistant returns the title (lines 122-143)
ExtractTitle ==
    /\ pc = "step3"
    /\ \E t \in Titles :
         /\ title' = t
         /\ log' = [log EXCEPT ![Len(log)].title = t]
    /\ pc' = "step4"
    /\ UNCHANGED <<idx, doi, lookups, resulting_method, rmQuality, db, storeVars>>

\* Step 4, the call inside try: get_doi_by_title raises, or returns None or a DOI
DoiLookup ==
    /\ pc = "step4"
    /\ lookups' = lookups + 1
    /\ \/ /\ pc' = "except"
          /\ UNCHANGED doi
       \/ \E d \in Dois \cup {"None"} :
            /\ doi' = d
            /\ pc' = "ifdoi"
    /\ log' = [log EXCEPT ![Len(log)].lookups = lookups + 1]
    /\ UNCHANGED <<idx, title, resulting_method, rmQuality, db, storeVars>>

\* the except clause: the call is made once more, outside any try, so that an
\* exception of the second call ends the script
DoiRetry ==
    /\ pc = "except"
    /\ lookups' = lookups + 1
    /\ \/ /\ pc' = "crashed_lookup"
          /\ UNCHANGED doi
       \/ \E d \in Dois \cup {"None"} :
            /\ doi' = d
            /\ pc' = "ifdoi"
    /\ log' = [log EXCEPT ![Len(log)].lookups = lookups + 1]
    /\ UNCHANGED <<idx, title, resulting_method, rmQuality, db, storeVars>>

\* if not doi / else / if Article.does_doi_exist(doi) (lines 152-159)
IfDoi ==
    /\ pc = "ifdoi"
    /\ log' = [log EXCEPT ![Len(log)].doi = doi]
    /\ IF ~Truthy(doi)
       THEN /\ pc' = "step7"
            /\ UNCHANGED resulting_method
       ELSE IF does_doi_exist(db, doi)
       THEN /\ resulting_method' = <<>>
            /\ pc' = "step7"
       ELSE /\ pc' = "step5"
            /\ UNCHANGED resulting_method
    /\ UNCHANGED <<idx, title, doi, lookups, rmQuality, db, storeVars>>

\* the quality report built by the loop over the criteria (lines 186-226)
Report(list, answers) ==
    [k \in 1..Len(list) |-> <<list[k].description, answers[k]>>]

\* Step 5: the assistant returns the research method, a new CriteriaStore
\* looks up its criteria and the assistant answers one prompt per criterion
\* (lines 160-229)
Step5 ==
    /\ pc = "step5"
    /\ \E m \in MethodNames :
       \E it \in Iterations(DictGet(load_from_csv(EmptyStore, fs, CsvFile(m)).criteria, m)) :
         LET r == is_criteria_available(EmptyStore, fs, m, it)
         IN /\ resulting_method' = m
            /\ criteria' = r.criteria
            /\ inserted' = InsertionsOfPath(fs, CsvFile(m))
            /\ ret' = [NoCall EXCEPT !.op = "is_criteria_available", !.method = m,
                                     !.path = CsvFile(m),
                                     !.kind = r.kind, !.val = r.val, !.raised = r.raised]
            /\ IF r.raised # "none"
               THEN /\ pc' = "crashed_criteria"
                    /\ UNCHANGED rmQuality
               ELSE /\ pc' = "step6"
                    /\ \E answers \in [1..Len(r.val) -> Answers] :
                         rmQuality' = Report(r.val, answers)
    /\ UNCHANGED <<idx, title, doi, lookups, db, log, fs, nops>>

\* Step 6, inside the else branch of does_doi_exist: the article is stored
\* (lines 234-243)
Step6 ==
    /\ pc = "step6"
    /\ LET article == Article(title, resulting_method,
                              IF Truthy(doi) THEN doi ELSE "no doi",
                              rmQuality, {Listing[idx]})
           docs == DocsWithDoi(db, article.doi)
       IN \E first \in IF docs = {} THEN {article.name} ELSE docs :
            db' = save_to_firestore(db, article, first)
    /\ log' = [log EXCEPT ![Len(log)].saved = TRUE]
    /\ pc' = "step7"
    /\ UNCHANGED <<idx, title, doi, lookups, resulting_method, rmQuality, storeVars>>

\* Step 7: the thread is closed and the loop goes on (lines 245-251)
Step7 ==
    /\ pc = "step7"
    /\ log' = [log EXCEPT ![Len(log)].done = TRUE]
    /\ pc' = "for"
    /\ UNCHANGED <<idx, title, doi, lookups, resulting_method, rmQuality, db, storeVars>>

InitLoop ==
    /\ criteria = EmptyStore
    /\ fs \in FileSystems
    /\ ret = NoCall
    /\ inserted = <<>>
    /\ nops = 0
    /\ pc = "for"
    /\ idx = 0
    /\ title = ""
    /\ doi = "None"
    /\ lookups = 0
    /\ resulting_method = <<>>
    /\ rmQuality = <<>>
    /\ db = EmptyCollection
    /\ log = <<>>

NextLoop ==
    \/ ForNext
    \/ ExtractTitle
    \/ DoiLookup
    \/ DoiRetry
    \/ IfDoi
    \/ Step5
    \/ Step6
    \/ Step7

SpecLoop == InitLoop /\ [][NextLoop]_vars

----------------------------------------------------------------------------
(* Properties of the CriteriaStore, checked under Spec *)

\* the insertions made under a method, in order
InsertedFor(m) == SelectSeq(inserted, LAMBDA r : r[1] = m)

MethodsSeen == DOMAIN criteria \cup {inserted[i][1] : i \in 1..Len(inserted)}

\* the level of the first of the insertions ins that has description d
FirstLevel(ins, d) ==
    ins[CHOOSE k \in 1..Len(ins) :
            ins[k][2] = d /\ \A j \in 1..(k-1) : ins[j][2] # d][3]

\* C1: after any sequence of add_criterion calls and load_from_csv row
\* insertions, a method's set holds exactly one Criterion per description
\* inserted under the method and no other; its attributes are exactly the
\* distinct (moscow, attribute) pairs inserted under the description, and its
\* level is the level of the first insertion of the description.
C1_OneCriterionPerDescription ==
    \A m \in MethodsSeen :
        LET ins == InsertedFor(m)
            cs == DictGet(criteria, m)
        IN /\ \A k \in 1..Len(ins) : Cardinality(Matching(cs, ins[k][2])) = 1
           /\ \A i \in 1..Len(cs) :
                /\ \E k \in 1..Len(ins) : ins[k][2] = cs[i].description
                /\ cs[i].attributes =
                      {<<ins[k][4], ins[k][5]>> :
                          k \in {j \in 1..Len(ins) : ins[j][2] = cs[i].description}}
                /\ cs[i].level = FirstLevel(ins, cs[i].description)

\* a pair was inserted twice under one description, with two levels
C1_Witness ==
    \E i, j \in 1..Len(inserted) :
        /\ i < j
        /\ inserted[i][1] = inserted[j][1]
        /\ inserted[i][2] = inserted[j][2]
        /\ inserted[i][3] # inserted[j][3]
        /\ inserted[i][4] = inserted[j][4]
        /\ inserted[i][5] = inserted[j][5]

\* C6: get_criteria_for_method returns one to_dict() projection per Criterion
\* stored under the method (its description, its level, its attributes as a
\* list without repetition), the empty list for a method without entry, and
\* it raises nothing and leaves the store as it was, entries included.
C6_GetCriteriaForMethod ==
    [][ret'.op = "get_criteria_for_method" =>
        LET cs == DictGet(criteria, ret'.method)
            list == ret'.val
        IN /\ criteria' = criteria
           /\ ret'.raised = "none"
           /\ ret'.kind = "list"
           /\ Len(list) = Len(cs)
           /\ \E perm \in Enumerations(1..Len(cs)) :
                \A k \in 1..Len(cs) :
                    /\ list[k].description = cs[perm[k]].description
                    /\ list[k].level = cs[perm[k]].level
                    /\ Range(list[k].attributes) = cs[perm[k]].attributes
                    /\ Len(list[k].attributes) = Cardinality(cs[perm[k]].attributes)
           /\ (ret'.method \notin DOMAIN criteria => list = <<>>)
      ]_vars

\* the criteria of a method with two Criterion objects were returned, and a
\* method without entry exists
C6_Witness ==
    /\ ret.op = "get_criteria_for_method"
    /\ Len(ret.val) = 2
    /\ \E k \in 1..2 : Len(ret.val[k].attributes) = 2
    /\ \E m \in MethodNames : m \notin DOMAIN criteria

\* the spellings of the Must Have priority
MustHaveSpellings == {MustHaveMixed, MustHaveLower, MustHaveUpper}

\* the bullet lines section lists the texts of pairs, each as often as it occurs
ListsExactly(section, pairs) ==
    /\ Len(section) = Cardinality(pairs)
    /\ \A p \in pairs :
          Count(section, <<"- ", p[2]>>) = Cardinality({q \in pairs : q[2] = p[2]})

\* the prompt lines render the criterion c
PromptRenders(lines, c) ==
    LET mustPairs == {p \in c.attributes : p[1] \in MustHaveSpellings}
        otherPairs == c.attributes \ mustPairs
        mustEnd == CHOOSE j \in 5..Len(lines) :
                      lines[j] = BlankLine /\ \A k \in 5..(j-1) : lines[k] # BlankLine
        mustSection == SubSeq(lines, 5, mustEnd - 1)
        rest == SubSeq(lines, mustEnd, Len(lines))
    IN /\ Len(lines) >= 7
       /\ lines[1] = CheckLine
       /\ lines[2] = <<c.description>>
       /\ lines[4] = MustLine
       /\ \E j \in 5..Len(lines) : lines[j] = BlankLine
       /\ IF mustPairs = {}
          THEN mustSection = <<PlaceholderLine>>
          ELSE ListsExactly(mustSection, mustPairs) /\ PlaceholderLine \notin Range(lines)
       /\ IF otherPairs # {}
          THEN /\ Len(rest) >= 4
               /\ rest[2] = SubstituteLine
               /\ ListsExactly(SubSeq(rest, 3, Len(rest) - 2), otherPairs)
          ELSE SubstituteLine \notin Range(lines)
       /\ lines[Len(lines)] = AnswerLine

\* C7: the prompt of generate_prompt_for_criterion names the description,
\* lists under Must Have exactly the attributes whose priority is a spelling
\* of "must have" (or the placeholder line, exactly when there is none), has
\* the substitution paragraph listing exactly the other attributes exactly
\* when there are some, and ends with the Yes-or-No instruction.
C7_PromptPartition ==
    (ret.op = "generate_prompt_for_criterion" /\ ret.kind = "prompt") =>
        \E i \in Matching(DictGet(criteria, ret.method), ret.description) :
            PromptRenders(ret.val, criteria[ret.method][i])

\* a prompt was rendered for a criterion that has the three spellings and
\* another priority
C7_Witness ==
    /\ ret.op = "generate_prompt_for_criterion"
    /\ ret.kind = "prompt"
    /\ \E i \in Matching(DictGet(criteria, ret.method), ret.description) :
          /\ \A mo \in MustHaveSpellings :
                \E p \in criteria[ret.method][i].attributes : p[1] = mo
          /\ \E p \in criteria[ret.method][i].attributes : p[1] \notin MustHaveSpellings

\* C8: generate_prompt_for_criterion raises nothing and leaves the store as
\* it was; it returns the diagnostic naming the description and the method
\* when the method has no Criterion of exactly that description, and a
\* prompt when it has one.
C8_PromptFailsSoftly ==
    [][ret'.op = "generate_prompt_for_criterion" =>
        /\ criteria' = criteria
        /\ ret'.raised = "none"
        /\ IF Matching(DictGet(criteria, ret'.method), ret'.description) = {}
           THEN /\ ret'.kind = "diagnostic"
                /\ ret'.val = [description |-> ret'.description, method |-> ret'.method]
           ELSE ret'.kind = "prompt"
      ]_vars

\* the diagnostic was returned for a method that has criteria, none of them
\* of the description asked for
C8_Witness ==
    /\ ret.op = "generate_prompt_for_criterion"
    /\ ret.kind = "diagnostic"
    /\ ret.method \in DOMAIN criteria
    /\ criteria[ret.method] # <<>>

----------------------------------------------------------------------------
(* Properties of loading, checked under SpecLoad *)

\* two stores hold the same criteria, whatever the order of their objects
SameContent(s, t) ==
    /\ DOMAIN s = DOMAIN t
    /\ \A m \in DOMAIN s :
          /\ Len(s[m]) = Len(t[m])
          /\ \A c \in Range(s[m]) \cup Range(t[m]) : Count(s[m], c) = Count(t[m], c)

\* two stores hold the same descriptions with the same attribute sets
SameUpToLevel(s, t) ==
    /\ DOMAIN s = DOMAIN t
    /\ \A m \in DOMAIN s :
          /\ Len(s[m]) = Len(t[m])
          /\ \A i \in 1..Len(s[m]) :
                /\ Cardinality(Matching(s[m], s[m][i].description)) = 1
                /\ \E j \in 1..Len(t[m]) :
                      /\ t[m][j].description = s[m][i].description
                      /\ t[m][j].attributes = s[m][i].attributes

\* the file with its non-header rows in the order perm
Permuted(file, perm) ==
    <<file[1]>> \o [k \in 1..(Len(file) - 1) |-> file[1 + perm[k]]]

\* the store a load of file at path yields from an empty store
LoadedAlone(path, file) == load_from_csv(EmptyStore, (path :> file), path).criteria

\* the 4-field rows among the non-header rows of a file
ValidRows(file) == SelectSeq(Tail(file), LAMBDA r : Len(r) = 4)

\* the rows of a file that share a description share the level
LevelsAgree(file) ==
    \A rows \in {ValidRows(file)} :
        \A i, j \in 1..Len(rows) : rows[i][1] = rows[j][1] => rows[i][2] = rows[j][2]

\* the stores a load into an empty store yields for the permutations of the
\* non-header rows of the file at path, each with the insertions it made
PermutedLoads(path, file) ==
    {[store |-> LoadedAlone(path, Permuted(file, perm)),
      rows |-> Insertions(MethodOfPath(path), Tail(Permuted(file, perm)))] :
        perm \in Enumerations(1..(Len(file) - 1))}

\* C2 as claimed: a load into an empty store yields the same store content
\* (descriptions, level per description, attribute sets) for every
\* permutation of the non-header rows of the file.
C2_RowOrderIrrelevant ==
    [][(criteria = EmptyStore /\ ret'.op = "load_from_csv" /\ ret'.raised = "none") =>
        \A t \in PermutedLoads(ret'.path, fs[ret'.path]) :
            SameContent(t.store, criteria')
      ]_vars

\* C2 as amended: for every permutation of the non-header rows, a load into
\* an empty store yields the same descriptions with the same attribute sets;
\* the level of a description is the level of the first row of the
\* description in the order loaded, so that the whole content is the same
\* when the rows that share a description share the level.
C2_RowOrderUpToLevel ==
    [][(criteria = EmptyStore /\ ret'.op = "load_from_csv" /\ ret'.raised = "none") =>
        \A t \in PermutedLoads(ret'.path, fs[ret'.path]) :
            /\ SameUpToLevel(t.store, criteria')
            /\ \A m \in DOMAIN t.store : \A i \in 1..Len(t.store[m]) :
                  t.store[m][i].level = FirstLevel(t.rows, t.store[m][i].description)
            /\ (LevelsAgree(fs[ret'.path]) => SameContent(t.store, criteria'))
      ]_vars

\* a file was loaded into an empty store in which two rows share the
\* description and differ in level and attribute
C2_Witness ==
    /\ nops = 1
    /\ ret.op = "load_from_csv"
    /\ ret.raised = "none"
    /\ \E i, j \in 1..Len(ValidRows(fs[ret.path])) :
          /\ i < j
          /\ ValidRows(fs[ret.path])[i][1] = ValidRows(fs[ret.path])[j][1]
          /\ ValidRows(fs[ret.path])[i][2] # ValidRows(fs[ret.path])[j][2]
          /\ ValidRows(fs[ret.path])[i][4] # ValidRows(fs[ret.path])[j][4]
    /\ criteria # EmptyStore

\* every criterion of store s is in store t, with its level and its attributes
Retained(s, t) ==
    \A m \in DOMAIN s :
        /\ m \in DOMAIN t
        /\ \A i \in 1..Len(s[m]) :
              \E j \in 1..Len(t[m]) :
                  /\ t[m][j].description = s[m][i].description
                  /\ t[m][j].level = s[m][i].level
                  /\ s[m][i].attributes \subseteq t[m][j].attributes

IsLoad(r) == r.op \in {"load_from_csv", "is_criteria_available"}

\* C3: a load (by load_from_csv or is_criteria_available) keeps every
\* criterion the store held, of the file's method and of any other, and a
\* load of the file that the call before it loaded leaves the store as that
\* call left it.
C3_ReloadMerges ==
    [][IsLoad(ret') =>
        /\ Retained(criteria, criteria')
        /\ (IsLoad(ret) /\ ret.path = ret'.path) => criteria' = criteria
      ]_vars

\* a file with rows of two descriptions was loaded twice in a row
C3_Witness ==
    /\ nops = 2
    /\ IsLoad(ret)
    /\ ret.raised = "none"
    /\ inserted = InsertionsOfPath(fs, ret.path) \o InsertionsOfPath(fs, ret.path)
    /\ Len(DictGet(criteria, MethodOfPath(ret.path))) = 2

\* the file without its non-header rows of a field count other than 4
WithoutMalformed(file) == <<file[1]>> \o ValidRows(file)

\* C4: load_from_csv of a file that has a header raises nothing and leaves
\* the store it would leave had the file no non-header row of a field count
\* other than 4: such rows are skipped, the rows before and after are loaded.
C4_MalformedRowsSkipped ==
    [][(ret'.op = "load_from_csv" /\ ret'.path \in DOMAIN fs /\ fs[ret'.path] # <<>>) =>
        /\ ret'.raised = "none"
        /\ criteria' =
              load_from_csv(criteria,
                            (ret'.path :> WithoutMalformed(fs[ret'.path])),
                            ret'.path).criteria
      ]_vars

\* a file was loaded that has a 5-field row between two 4-field rows of
\* different descriptions, and both are in the store
C4_Witness ==
    /\ ret.op = "load_from_csv"
    /\ ret.raised = "none"
    /\ Len(fs[ret.path]) = 4
    /\ Len(fs[ret.path][2]) = 4
    /\ Len(fs[ret.path][3]) = 5
    /\ Len(fs[ret.path][4]) = 4
    /\ fs[ret.path][2][1] # fs[ret.path][4][1]
    /\ Len(DictGet(criteria, MethodOfPath(ret.path))) = 2

\* C5 as claimed: is_criteria_available(method) returns None and leaves the
\* store when <criteria_base_dir>/<method>.csv does not exist; when it exists
\* (and has a header) the criteria of the file are stored and returned under
\* the method name passed.
C5_AvailableUnderCallersName ==
    [][ret'.op = "is_criteria_available" =>
        IF CsvFile(ret'.method) \notin DOMAIN fs
        THEN ret'.kind = "None" /\ criteria' = criteria
        ELSE fs[CsvFile(ret'.method)] # <<>> =>
                /\ ret'.kind = "list"
                /\ \A k \in 1..Len(ValidRows(fs[CsvFile(ret'.method)])) :
                      LET row == ValidRows(fs[CsvFile(ret'.method)])[k]
                      IN /\ \E i \in 1..Len(DictGet(criteria', ret'.method)) :
                               /\ criteria'[ret'.method][i].description = row[1]
                               /\ <<row[3], row[4]>> \in criteria'[ret'.method][i].attributes
                         /\ \E i \in 1..Len(ret'.val) :
                               /\ ret'.val[i].description = row[1]
                               /\ <<row[3], row[4]>> \in Range(ret'.val[i].attributes)
      ]_vars

\* the exceptions that are file-system errors
FileSystemErrors == {"FileNotFoundError"}

\* C9 as claimed: no exception leaves a CriteriaStore operation, but for a
\* file-system error raised by load_from_csv.
C9_OnlyFileSystemErrors ==
    ret.raised # "none" => (ret.op = "load_from_csv" /\ ret.raised \in FileSystemErrors)

----------------------------------------------------------------------------
(* Properties of the PDF processing loop, checked under SpecLoop *)

\* C10 as claimed: the DOI lookup is called at most twice per article; an
\* article for which no DOI was obtained is stored with doi "no doi", and the
\* loop goes on to the next PDF instead of ending.
C10_RetryOnceAndDegrade ==
    /\ \A i \in 1..Len(log) : log[i].lookups <= 2
    /\ pc # "crashed_lookup"
    /\ \A i \in 1..Len(log) :
          (log[i].done /\ ~Truthy(log[i].doi)) =>
              /\ log[i].saved
              /\ \E k \in DOMAIN db :
                    db[k].doi = "no doi" /\ log[i].filename \in db[k].filenames

----------------------------------------------------------------------------
(* SpecSave: a caller saving articles into an empty Articles collection *)

\* the articles saved: titles and DOIs that repeat, so that a DOI is met
\* again under another title and a title under another DOI
SavedArticles ==
    {Article(t, m, d, <<>>, {Listing[1]}) :
        t \in Titles, m \in {MethodA, <<>>}, d \in Dois \cup {"no doi"}}

Call_save_to_firestore(article) ==
    /\ \E first \in IF DocsWithDoi(db, article.doi) = {}
                    THEN {article.name}
                    ELSE DocsWithDoi(db, article.doi) :
          db' = save_to_firestore(db, article, first)
    /\ ret' = [NoCall EXCEPT !.op = "save_to_firestore", !.val = article]
    /\ nops' = nops + 1
    /\ UNCHANGED <<criteria, fs, inserted,
                   pc, idx, title, doi, lookups, resulting_method, rmQuality, log>>

InitSave ==
    /\ criteria = EmptyStore
    /\ fs = NoFiles
    /\ ret = NoCall
    /\ inserted = <<>>
    /\ nops = 0
    /\ LoopIdle

NextSave ==
    \E article \in SavedArticles :
        nops < MaxSaves /\ Call_save_to_firestore(article)

SpecSave == InitSave /\ [][NextSave]_vars

----------------------------------------------------------------------------
(* Properties of Article.save_to_firestore, checked under SpecSave *)

\* the records other than those under the keys ks are as they were
OthersUnchanged(old, new, ks) ==
    \A k \in (DOMAIN old \cup DOMAIN new) \ ks :
        k \in DOMAIN old /\ k \in DOMAIN new /\ new[k] = old[k]

\* no two records of the collection share the DOI
DoiUnique(collection) ==
    \A j, k \in DOMAIN collection :
        collection[j].doi = collection[k].doi => j = k

\* C11 as claimed: when a record with the article's DOI exists,
\* save_to_firestore updates that record under its key and creates none;
\* otherwise it creates a new record keyed by the article title.  Hence, from
\* an empty collection, no two records share the DOI, and a save leaves every
\* record whose DOI and key both differ from the saved article's.
C11_UpsertByDoi ==
    [][ret'.op = "save_to_firestore" =>
        LET article == ret'.val
            docs == DocsWithDoi(db, article.doi)
        IN /\ IF docs # {}
              THEN /\ DOMAIN db' = DOMAIN db
                   /\ \E k \in docs : db'[k] = article /\ OthersUnchanged(db, db', {k})
              ELSE /\ article.name \notin DOMAIN db
                   /\ DOMAIN db' = DOMAIN db \cup {article.name}
                   /\ db'[article.name] = article
                   /\ OthersUnchanged(db, db', {article.name})
           /\ DoiUnique(db')
           /\ \A k \in DOMAIN db :
                 (k # article.name /\ db[k].doi # article.doi) =>
                     (k \in DOMAIN db' /\ db'[k] = db[k])
      ]_vars

====
